---- MODULE Spec2Model ----
(***************************************************************************)
(* The lead store of lead-api: the leads table (database.py) and the       *)
(* request handlers of main.py that read and write it.                     *)
(*                                                                         *)
(* Every handler runs in its own SQLAlchemy session (get_db), on a worker  *)
(* thread of the server, so handlers of different requests interleave at   *)
(* the granularity of their SQL statements.  A handler is therefore a      *)
(* sequence of steps, one per round trip to the database:                  *)
(*     the SELECT of db.query(...).first(),                                *)
(*     the INSERT / UPDATE / DELETE and COMMIT of db.commit().             *)
(* db.refresh(...) re-reads the row for the response body only; the model  *)
(* records a response's kind and status, so the refresh is part of the     *)
(* commit step.                                                            *)
(* Spec interleaves the steps of NClients concurrent requests; SeqSpec     *)
(* runs the same steps one request at a time and adds the read-only        *)
(* handlers.                                                               *)
(***************************************************************************)
EXTENDS Integers, Sequences, FiniteSets, TLC

(* ------------------------------ bounds --------------------------------- *)
\* concurrent requests in flight
NClients == 2
\* largest id the model lets the table assign
MaxId == 2
\* last instant of the server clock
MaxTime == 1
\* longest phone string a request carries
MaxPhoneLen == 2
\* instants of the clock per calendar day
TicksPerDay == 1
\* largest skip and limit a list request carries
MaxSkip == 1
MaxLimit == 2

(* --------------------------- input alphabets --------------------------- *)
\* str.isdigit
Digits == {"0", "1", "2", "3", "4", "5", "6", "7", "8", "9"}
\* the characters phone inputs are made of: a digit and a separator
PhoneChars == {"1", "-"}
\* strings are sequences of characters
RECURSIVE StringsUpTo(_, _)
StringsUpTo(chars, n) ==
    IF n = 0 THEN {<<>>}
    ELSE LET shorter == StringsUpTo(chars, n - 1)
         IN  shorter \cup {Append(s, ch) : s \in shorter, ch \in chars}
PhoneInputs == StringsUpTo(PhoneChars, MaxPhoneLen)
FirstNames == {<<"a">>}
Clients == 1..NClients
Ids == 1..MaxId

(* ------------------------------ the table ------------------------------ *)
\* a NULL column value; no instant of the clock
NULL == -1
\* DATABASE_URL selects the engine
Backends == {"sqlite", "postgresql"}
\* Lead.phone is declared unique=True
PhoneUniqueOff == FALSE
PhoneUnique == TRUE

VARIABLES
    backend,        \* the engine behind DATABASE_URL
    leads,          \* the committed rows of table leads
    seq,            \* last value of the id sequence (postgresql)
    now,            \* datetime.utcnow()
    pc,             \* pc[c]: the statement request c executes next
    loc,            \* loc[c]: the handler's local state (its session)
    last,           \* the response of the step just taken, if it ended a request
    assigned,       \* history: every id an INSERT has been given
    signup_flips,   \* history: parity of the toggle_signup requests answered 200 on the row with this id
    callback_flips  \* history: the same for toggle_callback

vars == <<backend, leads, seq, now, pc, loc, last, assigned, signup_flips, callback_flips>>

\* clean_phone = ''.join(filter(str.isdigit, phone))
IsDigit(ch) == ch \in Digits
Normalize(phone) == SelectSeq(phone, IsDigit)

RowIds(table) == {r.id : r \in table}
RowPhones(table) == {r.phone : r \in table}
\* db.query(Lead).filter(Lead.id == lead_id).first()
ById(table, id) == CHOOSE r \in table : r.id = id
\* db.query(Lead).filter(Lead.phone == clean_phone).first()
ExistsPhone(table, phone) == \E r \in table : r.phone = phone

SetMax(S) == CHOOSE x \in S : \A y \in S : y <= x

\* the id the INSERT is given: the sequence's next value on postgresql; on
\* sqlite the column is INTEGER PRIMARY KEY without the AUTOINCREMENT keyword,
\* an alias of the rowid: one more than the largest rowid in the table
NextId ==
    IF backend = "postgresql" THEN seq + 1
    ELSE IF leads = {} THEN 1 ELSE SetMax(RowIds(leads)) + 1

NoLoc == [id |-> 0, phone |-> <<>>, first_name |-> <<>>, flag |-> FALSE, at |-> NULL]
\* a response: the handler, the HTTP status, and the id or phone it is about
NoResp == [op |-> "none", status |-> 0, id |-> 0, phone |-> <<>>, exists |-> FALSE,
           total |-> 0, leads |-> <<>>]
Resp(op, status) == [NoResp EXCEPT !.op = op, !.status = status]

Init ==
    /\ backend \in Backends
    /\ leads = {}
    /\ seq = 0
    /\ now = 0
    /\ pc = [c \in Clients |-> "idle"]
    /\ loc = [c \in Clients |-> NoLoc]
    /\ last = NoResp
    /\ assigned = {}
    /\ signup_flips = [i \in Ids |-> FALSE]
    /\ callback_flips = [i \in Ids |-> FALSE]

\* the handler returns or raises
Finish(c, response) ==
    /\ pc' = [pc EXCEPT ![c] = "idle"]
    /\ loc' = [loc EXCEPT ![c] = NoLoc]
    /\ last' = response

\* the handler goes on to its db.commit()
Goto(c, label, l) ==
    /\ pc' = [pc EXCEPT ![c] = label]
    /\ loc' = [loc EXCEPT ![c] = l]
    /\ last' = NoResp

\* the server clock advances
Tick ==
    /\ now < MaxTime
    /\ now' = now + 1
    /\ UNCHANGED <<backend, leads, seq, pc, loc, last, assigned, signup_flips, callback_flips>>

\* the response is sent
Deliver ==
    /\ last # NoResp
    /\ last' = NoResp
    /\ UNCHANGED <<backend, leads, seq, now, pc, loc, assigned, signup_flips, callback_flips>>

(* ------------------------------ create_lead ---------------------------- *)
\* the duplicate lookup
LookupSkipped(table, phone) == FALSE
DuplicateLookup(table, phone) == ExistsPhone(table, phone)

\* the lookup finds a row: HTTPException 400, its detail naming the phone as given
CreateDuplicate(c, phone, first_name) ==
    /\ pc[c] = "idle"
    /\ DuplicateLookup(leads, Normalize(phone))
    /\ Finish(c, [Resp("create", 400) EXCEPT !.phone = phone])
    /\ UNCHANGED <<backend, leads, seq, now, assigned, signup_flips, callback_flips>>

\* ids are unbounded in the program; the model starts an insert only while
\* every insert in flight can still be given an id up to MaxId
InFlightCreates == Cardinality({d \in Clients : pc[d] = "create_commit"})
IdsLeft == NextId + InFlightCreates <= MaxId

\* the lookup finds nothing: the Lead object is built
CreateLookup(c, phone, first_name) ==
    /\ pc[c] = "idle"
    /\ ~DuplicateLookup(leads, Normalize(phone))
    /\ IdsLeft
    /\ Goto(c, "create_commit",
            [NoLoc EXCEPT !.phone = Normalize(phone), !.first_name = first_name])
    /\ UNCHANGED <<backend, leads, seq, now, assigned, signup_flips, callback_flips>>

\* the unique index on leads.phone rejects the INSERT
UniqueViolation(phone) == PhoneUnique /\ ExistsPhone(leads, phone)

\* the row as inserted: the column defaults of Lead
NewLead(id, l) ==
    [id |-> id, first_name |-> l.first_name, phone |-> l.phone, submitted_at |-> now,
     signed_up |-> FALSE, signed_up_at |-> NULL,
     callback_scheduled |-> FALSE, callback_scheduled_at |-> NULL]

\* db.add(db_lead); db.commit(); db.refresh(db_lead); return db_lead
CreateCommit(c) ==
    /\ pc[c] = "create_commit"
    /\ ~UniqueViolation(loc[c].phone)
    /\ leads' = leads \cup {NewLead(NextId, loc[c])}
    /\ seq' = IF backend = "postgresql" THEN seq + 1 ELSE seq
    /\ assigned' = assigned \cup {NextId}
    /\ Finish(c, [Resp("create", 200) EXCEPT !.id = NextId])
    /\ UNCHANGED <<backend, now, signup_flips, callback_flips>>

\* db.commit() raises IntegrityError: another request inserted the phone
\* after this one's lookup; the sequence value drawn for the row is lost
CreateConflict(c) ==
    /\ pc[c] = "create_commit"
    /\ UniqueViolation(loc[c].phone)
    /\ seq' = IF backend = "postgresql" THEN seq + 1 ELSE seq
    /\ Finish(c, Resp("create", 500))
    /\ UNCHANGED <<backend, leads, now, assigned, signup_flips, callback_flips>>

(* ------------------------------ delete_lead ---------------------------- *)
DeleteNotFound(c, id) ==
    /\ pc[c] = "idle"
    /\ id \notin RowIds(leads)
    /\ Finish(c, [Resp("delete", 404) EXCEPT !.id = id])
    /\ UNCHANGED <<backend, leads, seq, now, assigned, signup_flips, callback_flips>>

DeleteLookup(c, id) ==
    /\ pc[c] = "idle"
    /\ id \in RowIds(leads)
    /\ Goto(c, "delete_commit",
            [NoLoc EXCEPT !.id = id, !.phone = ById(leads, id).phone])
    /\ UNCHANGED <<backend, leads, seq, now, assigned, signup_flips, callback_flips>>

\* DELETE FROM leads WHERE leads.id = ?
DeleteKeepRow(table, id) == table
DeleteRow(table, id) == {r \in table : r.id # id}

\* db.delete(lead); db.commit().  A DELETE that matches no row (the row was
\* deleted after the lookup) only warns, and the handler answers 200.  The
\* histories of the id end with its row.
DeleteCommit(c) ==
    /\ pc[c] = "delete_commit"
    /\ leads' = DeleteRow(leads, loc[c].id)
    /\ signup_flips' = [signup_flips EXCEPT ![loc[c].id] = FALSE]
    /\ callback_flips' = [callback_flips EXCEPT ![loc[c].id] = FALSE]
    /\ Finish(c, [Resp("delete", 200) EXCEPT !.id = loc[c].id, !.phone = loc[c].phone])
    /\ UNCHANGED <<backend, seq, now, assigned>>

(* ------------------- toggle_signup and toggle_callback ----------------- *)
\* lead.signed_up = not lead.signed_up
ToggledStuck(flag) == TRUE
Toggled(flag) == ~flag
\* datetime.utcnow() if lead.signed_up else None
StampAlways(flag) == now
Stamp(flag) == IF flag THEN now ELSE NULL

ToggleSignupNotFound(c, id) ==
    /\ pc[c] = "idle"
    /\ id \notin RowIds(leads)
    /\ Finish(c, [Resp("toggle_signup", 404) EXCEPT !.id = id])
    /\ UNCHANGED <<backend, leads, seq, now, assigned, signup_flips, callback_flips>>

\* the SELECT, and the two assignments to the loaded object
ToggleSignupLookup(c, id) ==
    /\ pc[c] = "idle"
    /\ id \in RowIds(leads)
    /\ LET flag == Toggled(ById(leads, id).signed_up)
       IN  Goto(c, "signup_commit", [NoLoc EXCEPT !.id = id, !.flag = flag, !.at = Stamp(flag)])
    /\ UNCHANGED <<backend, leads, seq, now, assigned, signup_flips, callback_flips>>

\* UPDATE leads SET signed_up=?, signed_up_at=? WHERE leads.id = ?
UpdateSignupAndCallback(table, id, flag, at) ==
    {IF r.id = id
        THEN [r EXCEPT !.signed_up = flag, !.signed_up_at = at,
                       !.callback_scheduled = flag, !.callback_scheduled_at = at]
        ELSE r : r \in table}
UpdateSignup(table, id, flag, at) ==
    {IF r.id = id THEN [r EXCEPT !.signed_up = flag, !.signed_up_at = at] ELSE r : r \in table}

\* db.commit(); db.refresh(lead); return {...}
ToggleSignupCommit(c) ==
    /\ pc[c] = "signup_commit"
    /\ loc[c].id \in RowIds(leads)
    /\ leads' = UpdateSignup(leads, loc[c].id, loc[c].flag, loc[c].at)
    /\ signup_flips' = [signup_flips EXCEPT ![loc[c].id] = ~@]
    /\ Finish(c, [Resp("toggle_signup", 200) EXCEPT !.id = loc[c].id])
    /\ UNCHANGED <<backend, seq, now, assigned, callback_flips>>

\* the UPDATE matches no row (deleted after the SELECT): StaleDataError
ToggleStale(c) ==
    /\ pc[c] \in {"signup_commit", "callback_commit"}
    /\ loc[c].id \notin RowIds(leads)
    /\ Finish(c, [Resp("toggle", 500) EXCEPT !.id = loc[c].id])
    /\ UNCHANGED <<backend, leads, seq, now, assigned, signup_flips, callback_flips>>

ToggleCallbackNotFound(c, id) ==
    /\ pc[c] = "idle"
    /\ id \notin RowIds(leads)
    /\ Finish(c, [Resp("toggle_callback", 404) EXCEPT !.id = id])
    /\ UNCHANGED <<backend, leads, seq, now, assigned, signup_flips, callback_flips>>

ToggleCallbackLookup(c, id) ==
    /\ pc[c] = "idle"
    /\ id \in RowIds(leads)
    /\ LET flag == Toggled(ById(leads, id).callback_scheduled)
       IN  Goto(c, "callback_commit", [NoLoc EXCEPT !.id = id, !.flag = flag, !.at = Stamp(flag)])
    /\ UNCHANGED <<backend, leads, seq, now, assigned, signup_flips, callback_flips>>

\* UPDATE leads SET callback_scheduled=?, callback_scheduled_at=? WHERE leads.id = ?
UpdateCallback(table, id, flag, at) ==
    {IF r.id = id THEN [r EXCEPT !.callback_scheduled = flag, !.callback_scheduled_at = at]
                  ELSE r : r \in table}

ToggleCallbackCommit(c) ==
    /\ pc[c] = "callback_commit"
    /\ loc[c].id \in RowIds(leads)
    /\ leads' = UpdateCallback(leads, loc[c].id, loc[c].flag, loc[c].at)
    /\ callback_flips' = [callback_flips EXCEPT ![loc[c].id] = ~@]
    /\ Finish(c, [Resp("toggle_callback", 200) EXCEPT !.id = loc[c].id])
    /\ UNCHANGED <<backend, seq, now, assigned, signup_flips>>

(* -------------------------- the reading handlers ---------------------- *)
\* check_phone: one SELECT; the response names the phone as it was given
CheckPhone(c, phone) ==
    /\ pc[c] = "idle"
    /\ Finish(c, [Resp("check", 200) EXCEPT
                    !.phone = phone, !.exists = ExistsPhone(leads, Normalize(phone))])
    /\ UNCHANGED <<backend, leads, seq, now, assigned, signup_flips, callback_flips>>

\* get_lead: one SELECT; 404 when it finds no row
GetLead(c, id) ==
    /\ pc[c] = "idle"
    /\ Finish(c, [Resp("get", IF id \in RowIds(leads) THEN 200 ELSE 404) EXCEPT !.id = id])
    /\ UNCHANGED <<backend, leads, seq, now, assigned, signup_flips, callback_flips>>

\* get_leads.  The query parameters: None and "" are both skipped by
\* `if search:`, and are both <<>> here; the optional booleans arrive as text.
SearchInputs == {<<>>, <<"1">>}
DateInputs == {"", "garbage", "1970-01-01", "1970-01-02"}
BoolInputs == {"", "true", "false"}
Filters ==
    [search : SearchInputs, start_date : DateInputs, end_date : DateInputs,
     signed_up : BoolInputs, callback_scheduled : BoolInputs]
\* skip: Query(0, ge=0); limit: Query(100, ge=1, le=500)
Skips == 0..MaxSkip
Limits == 1..MaxLimit

\* datetime.strptime(s, "%Y-%m-%d"): the day's number, NULL for ValueError
ParseDate(s) ==
    CASE s = "1970-01-01" -> 0
      [] s = "1970-01-02" -> 1
      [] OTHER -> NULL
\* midnight of the day, and end.replace(hour=23, minute=59, second=59); the
\* clock counts whole seconds, so 23:59:59 is the day's last instant
DayStart(d) == d * TicksPerDay
DayEnd(d) == d * TicksPerDay + TicksPerDay - 1

\* column LIKE '%term%' (the alphabets hold no wildcard and one letter case)
Like(s, term) ==
    \E i \in 1..(Len(s) - Len(term) + 1) : SubSeq(s, i, i + Len(term) - 1) = term

\* the WHERE clause the filters build
Matches(r, f) ==
    /\ f.search # <<>> => (Like(r.phone, f.search) \/ Like(r.first_name, f.search))
    /\ (f.start_date # "" /\ ParseDate(f.start_date) # NULL)
            => r.submitted_at >= DayStart(ParseDate(f.start_date))
    /\ (f.end_date # "" /\ ParseDate(f.end_date) # NULL)
            => r.submitted_at <= DayEnd(ParseDate(f.end_date))
    /\ f.signed_up # "" => r.signed_up = (f.signed_up = "true")
    /\ f.callback_scheduled # "" => r.callback_scheduled = (f.callback_scheduled = "true")
Matching(table, f) == {r \in table : Matches(r, f)}

\* ORDER BY submitted_at DESC: every order the engine may return, rows of
\* equal submitted_at in either order
Orderings(rows) ==
    {o \in [1..Cardinality(rows) -> rows] :
        /\ \A i, j \in 1..Cardinality(rows) : i # j => o[i] # o[j]
        /\ \A i, j \in 1..Cardinality(rows) : i < j => o[i].submitted_at >= o[j].submitted_at}

\* OFFSET skip LIMIT limit
PageLimitFirst(o, skip, limit) ==
    LET lim == IF Len(o) < limit THEN Len(o) ELSE limit
    IN  IF skip >= lim THEN <<>> ELSE SubSeq(o, skip + 1, lim)
Page(o, skip, limit) ==
    LET hi == IF Len(o) < skip + limit THEN Len(o) ELSE skip + limit
    IN  IF skip >= hi THEN <<>> ELSE SubSeq(o, skip + 1, hi)

\* total = query.count(); leads = query.order_by(...).offset(skip).limit(limit).all()
ListResponses(table, f, skip, limit) ==
    {[Resp("list", 200) EXCEPT !.total = Cardinality(Matching(table, f)),
                               !.leads = Page(o, skip, limit)] :
        o \in Orderings(Matching(table, f))}

GetLeads(c, f, skip, limit) ==
    /\ pc[c] = "idle"
    /\ \E r \in ListResponses(leads, f, skip, limit) : Finish(c, r)
    /\ UNCHANGED <<backend, leads, seq, now, assigned, signup_flips, callback_flips>>

(* --------------------------- the specifications ------------------------ *)
\* Concurrent requests: the steps of the writing handlers interleave.  The
\* clock stands still: which instant a timestamp holds plays no part in how
\* the statements interleave.
Next ==
    \/ \E c \in Clients, phone \in PhoneInputs, first_name \in FirstNames :
            CreateDuplicate(c, phone, first_name)
    \/ \E c \in Clients, phone \in PhoneInputs, first_name \in FirstNames :
            CreateLookup(c, phone, first_name)
    \/ \E c \in Clients : CreateCommit(c)
    \/ \E c \in Clients : CreateConflict(c)
    \/ \E c \in Clients, id \in Ids : DeleteNotFound(c, id)
    \/ \E c \in Clients, id \in Ids : DeleteLookup(c, id)
    \/ \E c \in Clients : DeleteCommit(c)
    \/ \E c \in Clients, id \in Ids : ToggleSignupNotFound(c, id)
    \/ \E c \in Clients, id \in Ids : ToggleSignupLookup(c, id)
    \/ \E c \in Clients : ToggleSignupCommit(c)
    \/ \E c \in Clients, id \in Ids : ToggleCallbackNotFound(c, id)
    \/ \E c \in Clients, id \in Ids : ToggleCallbackLookup(c, id)
    \/ \E c \in Clients : ToggleCallbackCommit(c)
    \/ \E c \in Clients : ToggleStale(c)

Spec == Init /\ [][Next]_vars

\* One request at a time: a request starts only when none is in flight and
\* the response of the one before has been sent, so no commit finds the table
\* changed since its lookup.
NoneInFlight == last = NoResp /\ \A c \in Clients : pc[c] = "idle"

\* the requests of SeqSpec come from one client
FirstClient == CHOOSE c \in Clients : \A d \in Clients : c <= d

SeqNext ==
    \/ Tick
    \/ Deliver
    \/ \E phone \in PhoneInputs, first_name \in FirstNames :
            NoneInFlight /\ CreateDuplicate(FirstClient, phone, first_name)
    \/ \E phone \in PhoneInputs, first_name \in FirstNames :
            NoneInFlight /\ CreateLookup(FirstClient, phone, first_name)
    \/ CreateCommit(FirstClient)
    \/ \E id \in Ids : NoneInFlight /\ DeleteNotFound(FirstClient, id)
    \/ \E id \in Ids : NoneInFlight /\ DeleteLookup(FirstClient, id)
    \/ DeleteCommit(FirstClient)
    \/ \E id \in Ids : NoneInFlight /\ ToggleSignupNotFound(FirstClient, id)
    \/ \E id \in Ids : NoneInFlight /\ ToggleSignupLookup(FirstClient, id)
    \/ ToggleSignupCommit(FirstClient)
    \/ \E id \in Ids : NoneInFlight /\ ToggleCallbackNotFound(FirstClient, id)
    \/ \E id \in Ids : NoneInFlight /\ ToggleCallbackLookup(FirstClient, id)
    \/ ToggleCallbackCommit(FirstClient)
    \/ \E phone \in PhoneInputs : NoneInFlight /\ CheckPhone(FirstClient, phone)
    \/ \E id \in Ids : NoneInFlight /\ GetLead(FirstClient, id)
    \/ \E f \in Filters, skip \in Skips, limit \in Limits :
            NoneInFlight /\ GetLeads(FirstClient, f, skip, limit)

SeqSpec == Init /\ [][SeqNext]_vars

(* ------------------------------ the claims ----------------------------- *)
\* the digit string of a phone input, character by character
RECURSIVE DigitsOf(_)
DigitsOf(phone) ==
    IF phone = <<>> THEN <<>>
    ELSE IF Head(phone) \in Digits THEN <<Head(phone)>> \o DigitsOf(Tail(phone))
    ELSE DigitsOf(Tail(phone))

Answered(op, status) == last' # last /\ last'.op = op /\ last'.status = status

\* C1: in every reachable state of the interleaved handlers, no two stored
\* rows have the same normalized phone, and every stored phone is digits only.
C1_UniquePhone ==
    /\ \A r1, r2 \in leads : r1.phone = r2.phone => r1 = r2
    /\ \A r \in leads : r.phone = DigitsOf(r.phone)
\* two creates of one phone raced: the second commit was rejected
C1_Witness ==
    /\ last.op = "create" /\ last.status = 500
    /\ \E r \in leads : r.phone # <<>>

\* C2: a create whose phone has the digit string of a stored row's phone is
\* answered with the duplicate error 400, naming the phone as given, and
\* leaves the table unchanged.
C2_DuplicateRejected ==
    [][\A c \in Clients :
        (pc[c] = "idle" /\ (pc'[c] = "create_commit" \/ last'.op = "create")) =>
            \A phone \in PhoneInputs, first_name \in FirstNames :
                (/\ DigitsOf(phone) \in RowPhones(leads)
                 /\ (CreateDuplicate(c, phone, first_name) \/ CreateLookup(c, phone, first_name)))
                => /\ last' = [Resp("create", 400) EXCEPT !.phone = phone]
                   /\ leads' = leads]_vars
\* a create was refused for a phone written differently from the stored one
C2_Witness ==
    /\ last.op = "create" /\ last.status = 400
    /\ last.phone # DigitsOf(last.phone)
    /\ DigitsOf(last.phone) # <<>>
    /\ DigitsOf(last.phone) \in RowPhones(leads)

\* C3: once no toggle of a row is in flight, its flag is its initial value
\* FALSE flipped once per toggle answered 200: no toggle is lost.
C3_NoLostToggle ==
    \A r \in leads :
        /\ (\A c \in Clients : ~(pc[c] = "signup_commit" /\ loc[c].id = r.id))
                => r.signed_up = signup_flips[r.id]
        /\ (\A c \in Clients : ~(pc[c] = "callback_commit" /\ loc[c].id = r.id))
                => r.callback_scheduled = callback_flips[r.id]

\* C4: in every reachable state of the interleaved handlers, every stored
\* row has signed_up_at non-null exactly when signed_up, and
\* callback_scheduled_at non-null exactly when callback_scheduled.
C4_StampIffFlag ==
    \A r \in leads :
        /\ (r.signed_up_at # NULL) <=> r.signed_up
        /\ (r.callback_scheduled_at # NULL) <=> r.callback_scheduled
\* a row was just toggled back to not signed up while a callback is scheduled
C4_Witness ==
    \E r \in leads :
        /\ last.op = "toggle_signup" /\ last.status = 200 /\ last.id = r.id
        /\ ~r.signed_up /\ r.signed_up_at = NULL
        /\ r.callback_scheduled /\ r.callback_scheduled_at # NULL

\* C5: the id given to an inserted row was given to no row before it.
C5_IdNeverReused ==
    [][\A r \in leads' : r.id \notin RowIds(leads) => r.id \notin assigned]_vars

\* C6: check_phone with an input that holds no digit answers exists = false.
C6_EmptyPhoneAbsent ==
    (last.op = "check" /\ DigitsOf(last.phone) = <<>>) => ~last.exists

\* C7: with one request at a time, a row toggled an odd number of times since
\* its insert is signed up with signed_up_at set, and a row toggled an even
\* number of times (none, or twice) is not signed up with signed_up_at null;
\* the same for callback_scheduled; a toggle of an id with no row is answered
\* 404 and changes no row.
C7_ToggleTwice ==
    [][/\ (\A c \in Clients : pc'[c] = "idle") =>
            \A r \in leads' :
                /\ r.signed_up = signup_flips'[r.id]
                /\ (r.signed_up_at # NULL) <=> signup_flips'[r.id]
                /\ r.callback_scheduled = callback_flips'[r.id]
                /\ (r.callback_scheduled_at # NULL) <=> callback_flips'[r.id]
       /\ \A op \in {"toggle_signup", "toggle_callback"} :
            /\ (last' # last /\ last'.op = op /\ last'.id \notin RowIds(leads))
                    => last'.status = 404
            /\ Answered(op, 404) => (leads' = leads /\ last'.id \notin RowIds(leads))]_vars
\* the second toggle of a row was answered: it is not signed up again
C7_Witness ==
    \E r \in leads :
        /\ last.op = "toggle_signup" /\ last.status = 200 /\ last.id = r.id
        /\ ~r.signed_up /\ r.signed_up_at = NULL

\* C8: with one request at a time, a delete answered 200 removes exactly the
\* row of that id, after which no row has its id or its phone; get_lead of
\* an id with no row is answered 404 and check_phone of a phone with no row
\* answers exists = false; a delete of an id with no row is answered 404 and
\* leaves the table unchanged.
C8_DeleteRemoves ==
    [][/\ Answered("delete", 200) =>
            /\ last'.id \in RowIds(leads)
            /\ leads' = {r \in leads : r.id # last'.id}
            /\ last'.id \notin RowIds(leads')
            /\ last'.phone = ById(leads, last'.id).phone
            /\ last'.phone \notin RowPhones(leads')
       /\ (last' # last /\ last'.op = "get" /\ last'.id \notin RowIds(leads))
            => last'.status = 404
       /\ (last' # last /\ last'.op = "check" /\ DigitsOf(last'.phone) \notin RowPhones(leads))
            => ~last'.exists
       /\ (last' # last /\ last'.op = "delete" /\ last'.id \notin RowIds(leads))
            => (last'.status = 404 /\ leads' = leads)]_vars
\* get_lead of an id whose row was deleted was answered 404
C8_Witness ==
    /\ last.op = "get" /\ last.status = 404
    /\ last.id \in assigned
    /\ leads # {}

\* term is a run of consecutive characters of s
HasPart(s, term) == \E i \in 1..Len(s) : \E j \in i..Len(s) : SubSeq(s, i, j) = term

\* what the filters ask of a row
AsksFor(r, f) ==
    /\ f.search # <<>> => (HasPart(r.phone, f.search) \/ HasPart(r.first_name, f.search))
    /\ f.start_date = "1970-01-01" => r.submitted_at >= 0
    /\ f.start_date = "1970-01-02" => r.submitted_at >= TicksPerDay
    /\ f.end_date = "1970-01-01" => r.submitted_at < TicksPerDay
    /\ f.end_date = "1970-01-02" => r.submitted_at < 2 * TicksPerDay
    /\ f.signed_up = "true" => r.signed_up
    /\ f.signed_up = "false" => ~r.signed_up
    /\ f.callback_scheduled = "true" => r.callback_scheduled
    /\ f.callback_scheduled = "false" => ~r.callback_scheduled

C10_ToggleFrame ==
    [][/\ Answered("toggle_signup", 200) =>
            /\ RowIds(leads') = RowIds(leads)
            /\ \A r \in leads :
                    IF r.id = last'.id
                    THEN [ById(leads', r.id) EXCEPT !.signed_up = r.signed_up,
                                                    !.signed_up_at = r.signed_up_at] = r
                    ELSE r \in leads'
       /\ Answered("toggle_callback", 200) =>
            /\ RowIds(leads') = RowIds(leads)
            /\ \A r \in leads :
                    IF r.id = last'.id
                    THEN [ById(leads', r.id) EXCEPT
                            !.callback_scheduled = r.callback_scheduled,
                            !.callback_scheduled_at = r.callback_scheduled_at] = r
                    ELSE r \in leads'
       /\ \A r \in leads : \A r2 \in leads' :
            r2.id = r.id => /\ r2.submitted_at = r.submitted_at
                            /\ r2.phone = r.phone
                            /\ r2.first_name = r.first_name]_vars
\* a signup toggle on a row created earlier, with a callback scheduled, beside another row
C10_Witness ==
    \E r \in leads :
        /\ last.op = "toggle_signup" /\ last.status = 200 /\ last.id = r.id
        /\ r.signed_up /\ r.callback_scheduled
        /\ r.submitted_at < r.signed_up_at
        /\ Cardinality(leads) = 2

====
